---------------------------- MODULE Spec2Model ----------------------------
(***************************************************************************)
(* Store bootstrap (bin/nanocld/src/utils/store.rs) and node registration  *)
(* (bin/nanocld/src/utils/node.rs) of the nanocl daemon.                   *)
(*                                                                         *)
(* One daemon process is modelled at a time; Restart starts the next one   *)
(* against the same store.  init() is an async function: every await and   *)
(* every store round trip is one step, pc is its position.                 *)
(***************************************************************************)
EXTENDS Integers, Sequences, FiniteSets, TLC

\* ------------------------------------------------------------- bounds
\* The probe and sleep counters of one run saturate here (the loop goes on).
MaxProbes == 3
\* Number of migrations embedded by embed_migrations!("./migrations").
NumMigrations == 3
\* Connections the pool hands out at most (the pool's max_size).
PoolSize == 2

\* ---------------------------------------------------- program constants
\* time::sleep(Duration::from_secs(2)) in the retry loop.
RETRY_SECS == 2
\* time::sleep(Duration::from_secs(2)) after the first successful connect.
SETTLE_SECS == 2

\* ------------------------------------------------------- input domains
Names == {"n1", "n2"}
Gateways == {"10.0.0.1", "10.0.0.2"}
\* DaemonConfig: hostname and gateway are the two fields register reads.
Configs == [hostname : Names, gateway : Gateways]

\* The config of a daemon that has not been started.
NoConfig == [hostname |-> "", gateway |-> ""]

\* A STORE_URL string, by what to_socket_addrs does with it: whether it
\* parses as host:port, whether the lookup succeeds, and the addresses found.
Endpoints ==
  { [wellFormed |-> TRUE,  resolvable |-> TRUE,  addrs |-> <<"a1">>],
    [wellFormed |-> TRUE,  resolvable |-> TRUE,  addrs |-> <<"a1", "a2">>],
    [wellFormed |-> TRUE,  resolvable |-> TRUE,  addrs |-> <<>>],
    [wellFormed |-> TRUE,  resolvable |-> FALSE, addrs |-> <<>>],
    [wellFormed |-> FALSE, resolvable |-> FALSE, addrs |-> <<>>] }

NoEndpoint == [wellFormed |-> FALSE, resolvable |-> FALSE, addrs |-> <<"unset">>]

\* The embedded MigrationSet: identifiers 1..NumMigrations.
MIGRATIONS == 1..NumMigrations

\* Underlying errors of a failing migration.
MigErrs == {"syntax error", "connection lost", "duplicate key value"}

\* ------------------------------------------------------------- results
NoResult == [tag |-> "None", kind |-> "", context |-> "", msg |-> <<>>]
OkUnit == [tag |-> "Ok", kind |-> "", context |-> "", msg |-> <<>>]
OkPool == [tag |-> "Ok", kind |-> "pool", context |-> "", msg |-> <<>>]
OkConn == [tag |-> "Ok", kind |-> "conn", context |-> "", msg |-> <<>>]

\* IoError::invalid_data(context, msg)
invalid_data(context, msg) ==
  [tag |-> "Err", kind |-> "InvalidData", context |-> context, msg |-> msg]

\* IoError::interupted(context, msg)
interupted(context, msg) ==
  [tag |-> "Err", kind |-> "Interrupted", context |-> context, msg |-> msg]

\* IoError::new(context, std::io::Error::new(ErrorKind::NotConnected, err))
not_connected(context, err) ==
  [tag |-> "Err", kind |-> "NotConnected", context |-> context, msg |-> <<"", err>>]

\* ---------------------------------------------------------------- state
VARIABLES
  pc,            \* position of this daemon's startup
  config,        \* DaemonConfig of the running daemon
  endpoint,      \* store_addr read from STORE_URL (or the default)
  addr,          \* wait_store's resolved socket address (<<>>: none yet)
  waitResult,    \* what wait_store returned
  pool,          \* init's local `pool`: TRUE once create_pool returned Ok
  conn,          \* init's local `conn`: TRUE while the connection is held
  pending,       \* the pending migrations still to run, in run order
  result,        \* what init returned
  checkedOut,    \* connections of the pool currently checked out
  storeUp,       \* the store accepts TCP connects on the probed address
  ledger,        \* the store's applied-migrations ledger (a bag as a sequence)
  schema,        \* migrations whose schema change is in effect in the store
  nodes,         \* the NodeRecord table, as a sequence of rows
  regResult,     \* what the last register call returned
  probes,        \* connect attempts of this run (saturating)
  sleeps,        \* completed sleeps of this run (saturating)
  connected,     \* a connect of this run has succeeded
  sinceConnect,  \* seconds slept since the first successful connect
  began,         \* steps of init begun in this run, in order
  completed,     \* steps of init completed successfully in this run, in order
  attempted,     \* migrations attempted in this run, in order
  failed,        \* the migration that failed in this run (0: none)
  ledgerBefore,  \* the ledger when this run's Migration Runner started
  schemaBefore,  \* the schema when this run's Migration Runner started
  applyLog,      \* every schema mutation ever made, in order (all runs)
  registered,    \* names whose register call returned Ok
  firstAddr,     \* per name, the address of its first register call that returned Ok
  poolBuilds,    \* pool constructions of this run
  lastSleep,     \* seconds of the last sleep of this run (0: none yet)
  taskHeld,      \* connections held by the daemon's units of work
  acqResult,     \* what the last get_pool_conn of a unit of work returned
  peerPc,        \* position of a second daemon sharing the store
  peerConfig,    \* DaemonConfig of the second daemon
  peerPending,   \* the second daemon's pending migrations, in run order
  peerFailed,    \* the migration that failed in the second daemon (0: none)
  peerResult,    \* what the second daemon's init returned
  peerRegResult, \* what the second daemon's register returned
  peerConflict,  \* the second daemon's insert met the unique key on name
  errSeen        \* the errors earlier runs of init returned, with the step that failed

vars == <<pc, config, endpoint, addr, waitResult, pool, conn, pending, result,
          checkedOut, storeUp, ledger, schema, nodes, regResult, probes, sleeps,
          connected, sinceConnect, began, completed, attempted, failed, ledgerBefore,
          schemaBefore, applyLog, registered, firstAddr, poolBuilds, lastSleep,
          taskHeld, acqResult, peerPc, peerConfig, peerPending, peerFailed,
          peerResult, peerRegResult, peerConflict, errSeen>>

\* groups for UNCHANGED
storeVars == <<ledger, schema, applyLog>>
nodeVars == <<nodes, regResult, registered>>
waitVars == <<addr, waitResult, probes, sleeps, connected, sinceConnect>>
migVars == <<pending, attempted, failed, ledgerBefore, schemaBefore>>
taskVars == <<taskHeld, acqResult>>
peerVars == <<peerPc, peerConfig, peerPending, peerFailed, peerResult,
              peerRegResult, peerConflict>>

\* -------------------------------------------------------------- helpers
Min(a, b) == IF a < b THEN a ELSE b

Range(s) == { s[i] : i \in 1..Len(s) }

Sat(n) == Min(n + 1, MaxProbes)

\* The steps of init, in the order the function body lists them.
StepOrder == <<"waiter", "pool", "conn", "migrate", "return">>

IsPrefix(s, t) == Len(s) <= Len(t) /\ \A i \in 1..Len(s) : s[i] = t[i]


\* insertion sort of a finite set of integers, ascending: the order in which
\* the Migration Runner lists the pending migrations
RECURSIVE SortAsc(_)
SortAsc(S) ==
  IF S = {} THEN <<>>
  ELSE LET m == CHOOSE x \in S : \A y \in S : x <= y
       IN <<m>> \o SortAsc(S \ {m})

\* addr.to_socket_addrs(): Err for a string that does not parse as host:port
\* or whose lookup fails, else Ok with the addresses found (possibly none).
to_socket_addrs(e) ==
  IF ~e.wellFormed THEN [ok |-> FALSE, err |-> "invalid socket address", addrs |-> <<>>]
  ELSE IF ~e.resolvable
    THEN [ok |-> FALSE, err |-> "failed to lookup address information", addrs |-> <<>>]
  ELSE [ok |-> TRUE, err |-> "", addrs |-> e.addrs]

\* Variant of PendingOf that does not consult the ledger.
PendingAll(rows) == SortAsc(MIGRATIONS)

\* run_pending_migrations lists the embedded migrations the ledger does not
\* record, in ascending identifier order.
PendingOf(rows) == SortAsc(MIGRATIONS \ Range(rows))

\* ----------------------------------------------------------------- Init
Init ==
  /\ pc = "start"
  /\ config \in Configs
  /\ endpoint = NoEndpoint
  /\ addr = <<>>
  /\ waitResult = NoResult
  /\ pool = FALSE
  /\ conn = FALSE
  /\ pending = <<>>
  /\ result = NoResult
  /\ checkedOut = 0
  /\ storeUp \in BOOLEAN
  /\ ledger = <<>>
  /\ schema = {}
  /\ nodes = <<>>
  /\ regResult = NoResult
  /\ probes = 0
  /\ sleeps = 0
  /\ connected = FALSE
  /\ sinceConnect = 0
  /\ began = <<>>
  /\ completed = <<>>
  /\ attempted = <<>>
  /\ failed = 0
  /\ ledgerBefore = <<>>
  /\ schemaBefore = {}
  /\ applyLog = <<>>
  /\ registered = {}
  /\ firstAddr = [n \in Names |-> ""]
  /\ poolBuilds = 0
  /\ lastSleep = 0
  /\ taskHeld = 0
  /\ acqResult = NoResult
  /\ peerPc = "idle"
  /\ peerConfig = NoConfig
  /\ peerPending = <<>>
  /\ peerFailed = 0
  /\ peerResult = NoResult
  /\ peerRegResult = NoResult
  /\ peerConflict = FALSE
  /\ errSeen = {}

\* ------------------------------------------------------ the environment
\* The store starts accepting TCP connects.
StoreComesUp ==
  /\ ~storeUp
  /\ storeUp' = TRUE
  /\ UNCHANGED <<pc, config, endpoint, pool, conn, result, checkedOut, began,
                 completed, storeVars, nodeVars, waitVars, migVars>>
  /\ UNCHANGED <<firstAddr, poolBuilds, lastSleep, taskVars, peerVars, errSeen>>

\* The store stops accepting TCP connects.
StoreGoesDown ==
  /\ storeUp
  /\ storeUp' = FALSE
  /\ UNCHANGED <<pc, config, endpoint, pool, conn, result, checkedOut, began,
                 completed, storeVars, nodeVars, waitVars, migVars>>
  /\ UNCHANGED <<firstAddr, poolBuilds, lastSleep, taskVars, peerVars, errSeen>>

\* ------------------------------------------------------------ wait_store
\* init, lines 123-126: read STORE_URL (any string) and call wait_store.
InitStart ==
  /\ pc = "start"
  /\ \E e \in Endpoints : endpoint' = e
  /\ began' = Append(began, "waiter")
  /\ pc' = "resolve"
  /\ UNCHANGED <<config, pool, conn, result, checkedOut, completed, storeUp,
                 storeVars, nodeVars, waitVars, migVars>>
  /\ UNCHANGED <<firstAddr, poolBuilds, lastSleep, taskVars, peerVars, errSeen>>

\* Variant of Resolve that treats a resolution error as transient and retries.
ResolveRetries ==
  /\ pc = "resolve"
  /\ LET r == to_socket_addrs(endpoint) IN
       IF ~r.ok
         THEN /\ pc' = "retry_sleep"
              /\ UNCHANGED <<waitResult, result, addr>>
       ELSE IF r.addrs = <<>>
         THEN /\ pc' = "panicked"
              /\ UNCHANGED <<waitResult, result, addr>>
       ELSE /\ addr' = <<Head(r.addrs)>>
            /\ pc' = "connect"
            /\ UNCHANGED <<waitResult, result>>
  /\ UNCHANGED <<config, endpoint, pool, conn, checkedOut, began, completed,
                 storeUp, storeVars, nodeVars, probes, sleeps, connected,
                 sinceConnect, migVars>>
  /\ UNCHANGED <<firstAddr, poolBuilds, lastSleep, taskVars, peerVars, errSeen>>

\* wait_store, lines 90-99: resolve; `?` returns the error through init
\* (line 126); .next().expect(..) panics when no address was found.
Resolve ==
  /\ pc = "resolve"
  /\ LET r == to_socket_addrs(endpoint) IN
       IF ~r.ok
         THEN LET e == invalid_data("Wait store", <<"invalid address format ", r.err>>) IN
              /\ waitResult' = e
              /\ result' = e
              /\ addr' = addr
              /\ pc' = "returned"
       ELSE IF r.addrs = <<>>
         THEN /\ pc' = "panicked"
              /\ UNCHANGED <<waitResult, result, addr>>
       ELSE /\ addr' = <<Head(r.addrs)>>
            /\ pc' = "connect"
            /\ UNCHANGED <<waitResult, result>>
  /\ UNCHANGED <<config, endpoint, pool, conn, checkedOut, began, completed,
                 storeUp, storeVars, nodeVars, probes, sleeps, connected,
                 sinceConnect, migVars>>
  /\ UNCHANGED <<firstAddr, poolBuilds, lastSleep, taskVars, peerVars, errSeen>>

\* Variant of Connect with the loop condition inverted (`while let Ok(_)`).
ConnectInverted ==
  /\ pc = "connect"
  /\ probes' = Sat(probes)
  /\ IF storeUp
       THEN /\ connected' = TRUE
            /\ pc' = "retry_sleep"
       ELSE /\ connected' = connected
            /\ pc' = "settle_sleep"
  /\ UNCHANGED <<config, endpoint, addr, waitResult, pool, conn, result,
                 checkedOut, began, completed, storeUp, storeVars, nodeVars,
                 sleeps, sinceConnect, migVars>>
  /\ UNCHANGED <<firstAddr, poolBuilds, lastSleep, taskVars, peerVars, errSeen>>

\* Variant of Connect with a retry ceiling: the second failed connect is
\* returned as an error.
ConnectWithCeiling ==
  /\ pc = "connect"
  /\ probes' = Sat(probes)
  /\ IF storeUp
       THEN /\ connected' = TRUE
            /\ pc' = "settle_sleep"
            /\ UNCHANGED <<waitResult, result>>
       ELSE IF probes >= 1
         THEN /\ connected' = connected
              /\ waitResult' = not_connected("Wait store", "connection refused")
              /\ result' = not_connected("Wait store", "connection refused")
              /\ pc' = "returned"
       ELSE /\ connected' = connected
            /\ pc' = "retry_sleep"
            /\ UNCHANGED <<waitResult, result>>
  /\ UNCHANGED <<config, endpoint, addr, pool, conn,
                 checkedOut, began, completed, storeUp, storeVars, nodeVars,
                 sleeps, sinceConnect, migVars>>
  /\ UNCHANGED <<firstAddr, poolBuilds, lastSleep, taskVars, peerVars, errSeen>>

\* wait_store, line 100: one rt::tcp_connect(addr); it succeeds exactly when
\* the store accepts connects.  Err enters the loop body, Ok leaves the loop.
Connect ==
  /\ pc = "connect"
  /\ probes' = Sat(probes)
  /\ IF storeUp
       THEN /\ connected' = TRUE
            /\ pc' = "settle_sleep"
       ELSE /\ connected' = connected
            /\ pc' = "retry_sleep"
  /\ UNCHANGED <<config, endpoint, addr, waitResult, pool, conn, result,
                 checkedOut, began, completed, storeUp, storeVars, nodeVars,
                 sleeps, sinceConnect, migVars>>
  /\ UNCHANGED <<firstAddr, poolBuilds, lastSleep, taskVars, peerVars, errSeen>>

\* Variant of RetrySleep whose interval doubles with every retry (up to 8 s).
RetrySleepBackoff ==
  /\ pc = "retry_sleep"
  /\ sleeps' = Sat(sleeps)
  /\ sinceConnect' = sinceConnect
  /\ pc' = "connect"
  /\ UNCHANGED <<config, endpoint, addr, waitResult, pool, conn, result,
                 checkedOut, began, completed, storeUp, storeVars, nodeVars,
                 probes, connected, migVars>>
  /\ lastSleep' = IF lastSleep = 0 THEN RETRY_SECS ELSE Min(2 * lastSleep, 8)
  /\ UNCHANGED <<firstAddr, poolBuilds, taskVars, peerVars, errSeen>>

\* wait_store, lines 101-102: warn, sleep 2 s, probe again.
RetrySleep ==
  /\ pc = "retry_sleep"
  /\ sleeps' = Sat(sleeps)
  /\ sinceConnect' = IF connected THEN sinceConnect + RETRY_SECS ELSE sinceConnect
  /\ pc' = "connect"
  /\ UNCHANGED <<config, endpoint, addr, waitResult, pool, conn, result,
                 checkedOut, began, completed, storeUp, storeVars, nodeVars,
                 probes, connected, migVars>>
  /\ lastSleep' = RETRY_SECS
  /\ UNCHANGED <<firstAddr, poolBuilds, taskVars, peerVars, errSeen>>

\* Variant of SettleSleep that returns Ok right after the connect.
SettleSleepSkipped ==
  /\ pc = "settle_sleep"
  /\ waitResult' = OkUnit
  /\ completed' = Append(completed, "waiter")
  /\ began' = Append(began, "pool")
  /\ pc' = "create_pool"
  /\ UNCHANGED <<config, endpoint, addr, pool, conn, result, checkedOut,
                 storeUp, storeVars, nodeVars, probes, connected, migVars,
                 sleeps, sinceConnect>>
  /\ UNCHANGED <<firstAddr, poolBuilds, lastSleep, taskVars, peerVars, errSeen>>

\* wait_store, lines 104-105: the settle sleep, then Ok(()); init goes on to
\* create_pool (line 127).
SettleSleep ==
  /\ pc = "settle_sleep"
  /\ sleeps' = Sat(sleeps)
  /\ sinceConnect' = IF connected THEN sinceConnect + SETTLE_SECS ELSE sinceConnect
  /\ waitResult' = OkUnit
  /\ completed' = Append(completed, "waiter")
  /\ began' = Append(began, "pool")
  /\ pc' = "create_pool"
  /\ UNCHANGED <<config, endpoint, addr, pool, conn, result, checkedOut,
                 storeUp, storeVars, nodeVars, probes, connected, migVars>>
  /\ lastSleep' = SETTLE_SECS
  /\ UNCHANGED <<firstAddr, poolBuilds, taskVars, peerVars, errSeen>>

\* ------------------------------------------------------------ create_pool
\* Variant of CreatePool that builds the pool again after a failure, up to
\* three times.
CreatePoolRetries ==
  /\ pc = "create_pool"
  /\ \E built \in (IF storeUp THEN BOOLEAN ELSE {FALSE}) :
       IF built
         THEN /\ pool' = TRUE
              /\ completed' = Append(completed, "pool")
              /\ began' = Append(began, "conn")
              /\ pc' = "get_conn"
              /\ result' = result
         ELSE IF poolBuilds < 2
           THEN UNCHANGED <<pc, result, pool, completed, began>>
         ELSE /\ result' = interupted("CockroachDB",
                              <<"Unable to create pool ", "timed out waiting for connection">>)
              /\ pc' = "returned"
              /\ UNCHANGED <<pool, completed, began>>
  /\ UNCHANGED <<config, endpoint, conn, checkedOut, storeUp, storeVars,
                 nodeVars, waitVars, migVars>>
  /\ poolBuilds' = poolBuilds + 1
  /\ UNCHANGED <<firstAddr, lastSleep, taskVars, peerVars, errSeen>>

\* Variant of CreatePool with the context string of the migration error.
CreatePoolMigrationContext ==
  /\ pc = "create_pool"
  /\ \E built \in (IF storeUp THEN BOOLEAN ELSE {FALSE}) :
       IF built
         THEN /\ pool' = TRUE
              /\ completed' = Append(completed, "pool")
              /\ began' = Append(began, "conn")
              /\ pc' = "get_conn"
              /\ result' = result
         ELSE /\ result' = interupted("CockroachDB migration",
                              <<"Unable to create pool ", "timed out waiting for connection">>)
              /\ pc' = "returned"
              /\ UNCHANGED <<pool, completed, began>>
  /\ UNCHANGED <<config, endpoint, conn, checkedOut, storeUp, storeVars,
                 nodeVars, waitVars, migVars>>
  /\ poolBuilds' = poolBuilds + 1
  /\ UNCHANGED <<firstAddr, lastSleep, taskVars, peerVars, errSeen>>

\* create_pool, lines 29-44, called at init line 127: one
\* r2d2::Pool::builder().build(manager) on the blocking executor.  It fails
\* when the store is down and may fail when it is up (TLS material); the
\* error becomes IoError::interupted("CockroachDB", ..) and `?` returns it.
CreatePool ==
  /\ pc = "create_pool"
  /\ \E built \in (IF storeUp THEN BOOLEAN ELSE {FALSE}) :
       IF built
         THEN /\ pool' = TRUE
              /\ completed' = Append(completed, "pool")
              /\ began' = Append(began, "conn")
              /\ pc' = "get_conn"
              /\ result' = result
         ELSE /\ result' = interupted("CockroachDB",
                              <<"Unable to create pool ", "timed out waiting for connection">>)
              /\ pc' = "returned"
              /\ UNCHANGED <<pool, completed, began>>
  /\ UNCHANGED <<config, endpoint, conn, checkedOut, storeUp, storeVars,
                 nodeVars, waitVars, migVars>>
  /\ poolBuilds' = poolBuilds + 1
  /\ UNCHANGED <<firstAddr, lastSleep, taskVars, peerVars, errSeen>>

\* pool.get(), line 61: a connection when the store is reachable and fewer
\* than PoolSize connections are checked out; else, after the pool's
\* connection timeout, the pool's error.
pool_get(up, out) ==
  IF up /\ out < PoolSize
    THEN [ok |-> TRUE, err |-> ""]
    ELSE [ok |-> FALSE, err |-> "timed out waiting for connection"]

\* Variant of GetConn whose error is not returned by init (no `?`).
GetConnIgnoresError ==
  /\ pc = "get_conn"
  /\ IF storeUp
       THEN /\ conn' = TRUE
            /\ checkedOut' = checkedOut + 1
            /\ completed' = Append(completed, "conn")
       ELSE UNCHANGED <<conn, checkedOut, completed>>
  /\ began' = Append(began, "migrate")
  /\ pc' = "pending"
  /\ UNCHANGED <<result, pool, config, endpoint, storeUp, storeVars, nodeVars,
                 waitVars, migVars>>
  /\ UNCHANGED <<firstAddr, poolBuilds, lastSleep, taskVars, peerVars, errSeen>>

\* get_pool_conn, lines 60-71, called at init line 128: one pool.get(); its
\* error is wrapped as NotConnected and `?` returns it (the pool is dropped).
GetConn ==
  /\ pc = "get_conn"
  /\ IF pool_get(storeUp, checkedOut).ok
       THEN /\ conn' = TRUE
            /\ checkedOut' = checkedOut + 1
            /\ completed' = Append(completed, "conn")
            /\ began' = Append(began, "migrate")
            /\ pc' = "pending"
            /\ UNCHANGED <<result, pool>>
       ELSE /\ result' = not_connected("CockroachDB connection",
                                       "timed out waiting for connection")
            /\ pool' = FALSE
            /\ pc' = "returned"
            /\ UNCHANGED <<conn, checkedOut, completed, began>>
  /\ UNCHANGED <<config, endpoint, storeUp, storeVars, nodeVars, waitVars,
                 migVars>>
  /\ UNCHANGED <<firstAddr, poolBuilds, lastSleep, taskVars, peerVars, errSeen>>

\* ------------------------------------------------- run_pending_migrations
\* init, line 130, first half of run_pending_migrations: read the ledger and
\* list the pending migrations.  A failed read is a migration error.
PendingMigrations ==
  /\ pc = "pending"
  /\ ledgerBefore' = ledger
  /\ schemaBefore' = schema
  /\ attempted' = <<>>
  /\ IF storeUp
       THEN /\ pending' = PendingOf(ledger)
            /\ pc' = "migrate"
            /\ UNCHANGED <<result, conn, checkedOut, pool>>
       ELSE /\ result' = interupted("CockroachDB migration", <<"", "connection lost">>)
            /\ conn' = FALSE
            /\ checkedOut' = checkedOut - 1
            /\ pool' = FALSE
            /\ pending' = <<>>
            /\ pc' = "returned"
  /\ UNCHANGED <<config, endpoint, began, completed, storeUp, storeVars,
                 nodeVars, waitVars, failed>>
  /\ UNCHANGED <<firstAddr, poolBuilds, lastSleep, taskVars, peerVars, errSeen>>

\* Variant of MigrationOutcomes for a ledger without its primary key: a
\* recorded migration can be run and recorded again.
MigrationOutcomesNoKey(m) ==
  IF ~storeUp THEN {"connection lost"} ELSE {"ok", "syntax error"}

\* What running migration m and recording it, as one store transaction, can
\* give: no store, no success; a migration the ledger already records (another
\* daemon ran it since this one listed it) fails, on its own statements or at
\* the latest on the ledger's primary key, and the transaction is undone.
MigrationOutcomes(m) ==
  IF ~storeUp THEN {"connection lost"}
  ELSE IF m \in Range(ledger) THEN {"duplicate key value"}
  ELSE {"ok", "syntax error"}

\* Variant of MigrateOne whose error is dropped by init: the pool is returned.
MigrateOneErrorIgnored ==
  /\ pc = "migrate"
  /\ pending # <<>>
  /\ LET m == Head(pending) IN
     /\ attempted' = Append(attempted, m)
     /\ \E out \in (IF storeUp THEN {"ok", "syntax error"} ELSE {"connection lost"}) :
          IF out = "ok"
            THEN /\ schema' = schema \cup {m}
                 /\ ledger' = Append(ledger, m)
                 /\ applyLog' = Append(applyLog, m)
                 /\ pending' = Tail(pending)
                 /\ UNCHANGED <<pc, result, conn, checkedOut, pool, failed>>
            ELSE /\ result' = OkPool
                 /\ failed' = m
                 /\ conn' = FALSE
                 /\ checkedOut' = checkedOut - 1
                 /\ pc' = "returned"
                 /\ UNCHANGED <<schema, ledger, applyLog, pending, pool>>
  /\ UNCHANGED <<config, endpoint, began, completed, storeUp, nodeVars,
                 waitVars, ledgerBefore, schemaBefore>>
  /\ UNCHANGED <<firstAddr, poolBuilds, lastSleep, taskVars, peerVars, errSeen>>

\* Variant of MigrateOne that goes on with the later migrations after a
\* failure.
MigrateOneContinues ==
  /\ pc = "migrate"
  /\ pending # <<>>
  /\ LET m == Head(pending) IN
     /\ attempted' = Append(attempted, m)
     /\ pending' = Tail(pending)
     /\ \E out \in (IF storeUp THEN {"ok", "syntax error"} ELSE {"connection lost"}) :
          IF out = "ok"
            THEN /\ schema' = schema \cup {m}
                 /\ ledger' = Append(ledger, m)
                 /\ applyLog' = Append(applyLog, m)
                 /\ UNCHANGED <<pc, result, conn, checkedOut, pool, failed>>
            ELSE /\ failed' = m
                 /\ UNCHANGED <<schema, ledger, applyLog, pc, result, conn,
                                checkedOut, pool>>
  /\ UNCHANGED <<config, endpoint, began, completed, storeUp, nodeVars,
                 waitVars, ledgerBefore, schemaBefore>>
  /\ UNCHANGED <<firstAddr, poolBuilds, lastSleep, taskVars, peerVars, errSeen>>

\* Variant of MigrateOne that undoes the whole run when a migration fails.
MigrateOneRollsBack ==
  /\ pc = "migrate"
  /\ pending # <<>>
  /\ LET m == Head(pending) IN
     /\ attempted' = Append(attempted, m)
     /\ \E out \in (IF storeUp THEN {"ok", "syntax error"} ELSE {"connection lost"}) :
          IF out = "ok"
            THEN /\ schema' = schema \cup {m}
                 /\ ledger' = Append(ledger, m)
                 /\ applyLog' = Append(applyLog, m)
                 /\ pending' = Tail(pending)
                 /\ UNCHANGED <<pc, result, conn, checkedOut, pool, failed>>
            ELSE /\ result' = interupted("CockroachDB migration", <<"", out>>)
                 /\ failed' = m
                 /\ conn' = FALSE
                 /\ checkedOut' = checkedOut - 1
                 /\ pool' = FALSE
                 /\ pc' = "returned"
                 /\ schema' = schemaBefore
                 /\ ledger' = ledgerBefore
                 /\ UNCHANGED <<applyLog, pending>>
  /\ UNCHANGED <<config, endpoint, began, completed, storeUp, nodeVars,
                 waitVars, ledgerBefore, schemaBefore>>
  /\ UNCHANGED <<firstAddr, poolBuilds, lastSleep, taskVars, peerVars, errSeen>>

\* init, lines 130-132, one turn of run_pending_migrations' loop: run the
\* next pending migration and record it, in one store transaction.  On Ok go
\* on with the next one; on Err stop, map the error with
\* IoError::interupted("CockroachDB migration", "{err}") and return it (conn
\* and pool are dropped).  Nothing is undone.
MigrateOne ==
  /\ pc = "migrate"
  /\ pending # <<>>
  /\ LET m == Head(pending) IN
     /\ attempted' = Append(attempted, m)
     /\ \E out \in MigrationOutcomes(m) :
          IF out = "ok"
            THEN /\ schema' = schema \cup {m}
                 /\ ledger' = Append(ledger, m)
                 /\ applyLog' = Append(applyLog, m)
                 /\ pending' = Tail(pending)
                 /\ UNCHANGED <<pc, result, conn, checkedOut, pool, failed>>
            ELSE /\ result' = interupted("CockroachDB migration", <<"", out>>)
                 /\ failed' = m
                 /\ conn' = FALSE
                 /\ checkedOut' = checkedOut - 1
                 /\ pool' = FALSE
                 /\ pc' = "returned"
                 /\ UNCHANGED <<schema, ledger, applyLog, pending>>
  /\ UNCHANGED <<config, endpoint, began, completed, storeUp, nodeVars,
                 waitVars, ledgerBefore, schemaBefore>>
  /\ UNCHANGED <<firstAddr, poolBuilds, lastSleep, taskVars, peerVars, errSeen>>

\* Variant of MigrationsApplied that returns the pool with the connection
\* still checked out.
MigrationsAppliedKeepsConn ==
  /\ pc = "migrate"
  /\ pending = <<>>
  /\ completed' = Append(completed, "migrate")
  /\ began' = Append(began, "return")
  /\ conn' = FALSE
  /\ checkedOut' = checkedOut
  /\ result' = OkPool
  /\ pc' = "returned"
  /\ UNCHANGED <<config, endpoint, pool, storeUp, storeVars, nodeVars,
                 waitVars, migVars>>
  /\ UNCHANGED <<firstAddr, poolBuilds, lastSleep, taskVars, peerVars, errSeen>>

\* init, lines 132-135: run_pending_migrations returned Ok; conn goes out of
\* scope and the pool is returned.
MigrationsApplied ==
  /\ pc = "migrate"
  /\ pending = <<>>
  /\ completed' = Append(completed, "migrate")
  /\ began' = Append(began, "return")
  /\ conn' = FALSE
  /\ checkedOut' = checkedOut - 1
  /\ result' = OkPool
  /\ pc' = "returned"
  /\ UNCHANGED <<config, endpoint, pool, storeUp, storeVars, nodeVars,
                 waitVars, migVars>>
  /\ UNCHANGED <<firstAddr, poolBuilds, lastSleep, taskVars, peerVars, errSeen>>

\* ---------------------------------------------------------------- register
\* NodeDb::create_if_not_exists(&node, &pool): insert the row unless a row
\* with that name exists; an existing row is left as it is.
create_if_not_exists(node, rows) ==
  IF \E i \in 1..Len(rows) : rows[i].name = node.name
    THEN rows
    ELSE Append(rows, node)

\* Variant of Register that inserts the row without looking for the name.
RegisterInserts ==
  /\ pc = "returned"
  /\ result = OkPool
  /\ LET node == [name |-> config.hostname, ip_address |-> config.gateway] IN
       IF storeUp
         THEN /\ nodes' = Append(nodes, node)
              /\ regResult' = OkUnit
              /\ registered' = registered \cup {node.name}
         ELSE /\ regResult' = not_connected("CockroachDB connection",
                                            "timed out waiting for connection")
              /\ UNCHANGED <<nodes, registered>>
  /\ UNCHANGED <<pc, config, endpoint, pool, conn, result, checkedOut, began,
                 completed, storeUp, storeVars, waitVars, migVars>>
  /\ firstAddr' = IF storeUp /\ firstAddr[config.hostname] = ""
                    THEN [firstAddr EXCEPT ![config.hostname] = config.gateway]
                    ELSE firstAddr
  /\ UNCHANGED <<poolBuilds, lastSleep, taskVars, peerVars, errSeen>>

\* Variant of Register that overwrites the address of an existing row.
RegisterUpserts ==
  /\ pc = "returned"
  /\ result = OkPool
  /\ LET node == [name |-> config.hostname, ip_address |-> config.gateway] IN
       IF storeUp
         THEN /\ nodes' = IF \E i \in 1..Len(nodes) : nodes[i].name = node.name
                            THEN [i \in 1..Len(nodes) |->
                                    IF nodes[i].name = node.name THEN node ELSE nodes[i]]
                            ELSE Append(nodes, node)
              /\ regResult' = OkUnit
              /\ registered' = registered \cup {node.name}
         ELSE /\ regResult' = not_connected("CockroachDB connection",
                                            "timed out waiting for connection")
              /\ UNCHANGED <<nodes, registered>>
  /\ UNCHANGED <<pc, config, endpoint, pool, conn, result, checkedOut, began,
                 completed, storeUp, storeVars, waitVars, migVars>>
  /\ firstAddr' = IF storeUp /\ firstAddr[config.hostname] = ""
                    THEN [firstAddr EXCEPT ![config.hostname] = config.gateway]
                    ELSE firstAddr
  /\ UNCHANGED <<poolBuilds, lastSleep, taskVars, peerVars, errSeen>>

\* register, node.rs lines 5-12: the row is {hostname, gateway} of the
\* daemon's config; the store call's error is returned by `?`.
Register ==
  /\ pc = "returned"
  /\ result = OkPool
  /\ LET node == [name |-> config.hostname, ip_address |-> config.gateway] IN
       IF storeUp
         THEN /\ nodes' = create_if_not_exists(node, nodes)
              /\ regResult' = OkUnit
              /\ registered' = registered \cup {node.name}
         ELSE /\ regResult' = not_connected("CockroachDB connection",
                                            "timed out waiting for connection")
              /\ UNCHANGED <<nodes, registered>>
  /\ UNCHANGED <<pc, config, endpoint, pool, conn, result, checkedOut, began,
                 completed, storeUp, storeVars, waitVars, migVars>>
  /\ firstAddr' = IF storeUp /\ firstAddr[config.hostname] = ""
                    THEN [firstAddr EXCEPT ![config.hostname] = config.gateway]
                    ELSE firstAddr
  /\ UNCHANGED <<poolBuilds, lastSleep, taskVars, peerVars, errSeen>>

\* ------------------------------------------------------- units of work
\* Variant of TaskGetConn that wraps the pool's error the way create_pool
\* does.
TaskGetConnInterrupted ==
  /\ pc = "returned"
  /\ result = OkPool
  /\ LET r == pool_get(storeUp, checkedOut) IN
       IF r.ok
         THEN /\ checkedOut' = checkedOut + 1
              /\ taskHeld' = taskHeld + 1
              /\ acqResult' = OkConn
         ELSE /\ acqResult' = interupted("CockroachDB connection", <<"", r.err>>)
              /\ UNCHANGED <<checkedOut, taskHeld>>
  /\ UNCHANGED <<pc, config, endpoint, pool, conn, result, began, completed,
                 storeUp, storeVars, nodeVars, waitVars, migVars, poolBuilds,
                 lastSleep, firstAddr, peerVars, errSeen>>

\* get_pool_conn, lines 60-71, called by a unit of work of the running
\* daemon on the pool init returned: one pool.get(); its error is wrapped as
\* NotConnected and returned.
TaskGetConn ==
  /\ pc = "returned"
  /\ result = OkPool
  /\ LET r == pool_get(storeUp, checkedOut) IN
       IF r.ok
         THEN /\ checkedOut' = checkedOut + 1
              /\ taskHeld' = taskHeld + 1
              /\ acqResult' = OkConn
         ELSE /\ acqResult' = not_connected("CockroachDB connection", r.err)
              /\ UNCHANGED <<checkedOut, taskHeld>>
  /\ UNCHANGED <<pc, config, endpoint, pool, conn, result, began, completed,
                 storeUp, storeVars, nodeVars, waitVars, migVars, poolBuilds,
                 lastSleep, firstAddr, peerVars, errSeen>>

\* A unit of work ends: its DBConn is dropped and goes back to the pool.
TaskRelease ==
  /\ pc = "returned"
  /\ taskHeld > 0
  /\ taskHeld' = taskHeld - 1
  /\ checkedOut' = checkedOut - 1
  /\ UNCHANGED <<pc, config, endpoint, pool, conn, result, began, completed,
                 storeUp, storeVars, nodeVars, waitVars, migVars, poolBuilds,
                 lastSleep, firstAddr, acqResult, peerVars, errSeen>>

\* The error init returned in this run, with the step that failed: the step
\* after the last one completed.
ReturnedErr ==
  IF result.tag = "Err"
    THEN {[step |-> StepOrder[Len(completed) + 1], kind |-> result.kind,
           context |-> result.context]}
    ELSE {}

\* The daemon process ends (init returned or panicked) and a daemon is
\* started again, on any host, against the same store.
Restart ==
  /\ pc \in {"returned", "panicked"}
  /\ pc' = "start"
  /\ config' \in Configs
  /\ endpoint' = NoEndpoint
  /\ addr' = <<>>
  /\ waitResult' = NoResult
  /\ pool' = FALSE
  /\ conn' = FALSE
  /\ pending' = <<>>
  /\ result' = NoResult
  /\ checkedOut' = 0
  /\ regResult' = NoResult
  /\ probes' = 0
  /\ sleeps' = 0
  /\ connected' = FALSE
  /\ sinceConnect' = 0
  /\ began' = <<>>
  /\ completed' = <<>>
  /\ attempted' = <<>>
  /\ failed' = 0
  /\ ledgerBefore' = <<>>
  /\ schemaBefore' = {}
  /\ UNCHANGED <<storeUp, storeVars, nodes, registered>>
  /\ poolBuilds' = 0
  /\ lastSleep' = 0
  /\ taskHeld' = 0
  /\ acqResult' = NoResult
  /\ errSeen' = errSeen \cup ReturnedErr
  /\ UNCHANGED <<firstAddr, peerVars>>

\* --------------------------------------------------------- a second daemon
\* Everything of the first daemon and the history of its runs.
ownVars == <<pc, config, endpoint, addr, waitResult, pool, conn, pending,
             result, checkedOut, regResult, probes, sleeps, connected,
             sinceConnect, began, completed, attempted, failed, ledgerBefore,
             schemaBefore, poolBuilds, lastSleep, taskVars, errSeen>>

\* A second daemon, on any host, has come through its own waiter, pool and
\* connection steps and reaches init line 130: it reads the ledger and lists
\* its pending migrations.
PeerPending ==
  /\ peerPc = "idle"
  /\ peerConfig' \in Configs
  /\ IF storeUp
       THEN /\ peerPending' = PendingOf(ledger)
            /\ peerPc' = "migrate"
            /\ peerResult' = peerResult
       ELSE /\ peerResult' = interupted("CockroachDB migration", <<"", "connection lost">>)
            /\ peerPc' = "failed"
            /\ peerPending' = <<>>
  /\ UNCHANGED <<ownVars, storeUp, storeVars, nodes, registered, firstAddr,
                 peerFailed, peerRegResult, peerConflict>>

\* The second daemon's init, lines 130-132: one turn of
\* run_pending_migrations' loop, as in MigrateOne.
PeerMigrateOne ==
  /\ peerPc = "migrate"
  /\ peerPending # <<>>
  /\ LET m == Head(peerPending) IN
       \E out \in MigrationOutcomes(m) :
          IF out = "ok"
            THEN /\ schema' = schema \cup {m}
                 /\ ledger' = Append(ledger, m)
                 /\ applyLog' = Append(applyLog, m)
                 /\ peerPending' = Tail(peerPending)
                 /\ UNCHANGED <<peerPc, peerResult, peerFailed>>
            ELSE /\ peerResult' = interupted("CockroachDB migration", <<"", out>>)
                 /\ peerFailed' = m
                 /\ peerPc' = "failed"
                 /\ UNCHANGED <<schema, ledger, applyLog, peerPending>>
  /\ UNCHANGED <<ownVars, storeUp, nodes, registered, firstAddr, peerConfig,
                 peerRegResult, peerConflict>>

\* The second daemon's init, lines 132-135: it returns its pool.
PeerApplied ==
  /\ peerPc = "migrate"
  /\ peerPending = <<>>
  /\ peerResult' = OkPool
  /\ peerPc' = "ready"
  /\ UNCHANGED <<ownVars, storeUp, storeVars, nodes, registered, firstAddr,
                 peerConfig, peerPending, peerFailed, peerRegResult,
                 peerConflict>>

\* The second daemon's register, first half of create_if_not_exists: look for
\* a row with the name; when there is one, register returns Ok.
PeerLookup ==
  /\ peerPc = "ready"
  /\ IF ~storeUp
       THEN /\ peerRegResult' = not_connected("CockroachDB connection",
                                              "timed out waiting for connection")
            /\ peerPc' = "registered"
            /\ registered' = registered
       ELSE IF \E i \in 1..Len(nodes) : nodes[i].name = peerConfig.hostname
         THEN /\ peerRegResult' = OkUnit
              /\ peerPc' = "registered"
              /\ registered' = registered \cup {peerConfig.hostname}
       ELSE /\ peerPc' = "insert"
            /\ UNCHANGED <<peerRegResult, registered>>
  /\ UNCHANGED <<ownVars, storeUp, storeVars, nodes, firstAddr, peerConfig,
                 peerPending, peerFailed, peerResult, peerConflict>>

\* Variant of PeerInsert that returns the unique-key conflict as an error.
PeerInsertConflictFails ==
  /\ peerPc = "insert"
  /\ peerPc' = "registered"
  /\ LET node == [name |-> peerConfig.hostname, ip_address |-> peerConfig.gateway] IN
       IF ~storeUp
         THEN /\ peerRegResult' = not_connected("CockroachDB connection",
                                                "timed out waiting for connection")
              /\ UNCHANGED <<nodes, registered, firstAddr, peerConflict>>
       ELSE IF \E i \in 1..Len(nodes) : nodes[i].name = node.name
         THEN /\ peerConflict' = TRUE
              /\ peerRegResult' = interupted("NodeDb", <<"", "duplicate key value">>)
              /\ UNCHANGED <<nodes, registered, firstAddr>>
       ELSE /\ nodes' = Append(nodes, node)
            /\ peerRegResult' = OkUnit
            /\ registered' = registered \cup {node.name}
            /\ firstAddr' = [firstAddr EXCEPT ![node.name] = node.ip_address]
            /\ peerConflict' = peerConflict
  /\ UNCHANGED <<ownVars, storeUp, storeVars, peerConfig, peerPending,
                 peerFailed, peerResult>>

\* The second daemon's register, second half of create_if_not_exists: insert
\* the row.  The table is unique on name: when a row with the name has
\* appeared since the lookup, the insert meets the unique key, nothing is
\* inserted, and that expected conflict is not an error.
PeerInsert ==
  /\ peerPc = "insert"
  /\ peerPc' = "registered"
  /\ LET node == [name |-> peerConfig.hostname, ip_address |-> peerConfig.gateway] IN
       IF ~storeUp
         THEN /\ peerRegResult' = not_connected("CockroachDB connection",
                                                "timed out waiting for connection")
              /\ UNCHANGED <<nodes, registered, firstAddr, peerConflict>>
       ELSE IF \E i \in 1..Len(nodes) : nodes[i].name = node.name
         THEN /\ peerConflict' = TRUE
              /\ peerRegResult' = OkUnit
              /\ registered' = registered \cup {node.name}
              /\ UNCHANGED <<nodes, firstAddr>>
       ELSE /\ nodes' = Append(nodes, node)
            /\ peerRegResult' = OkUnit
            /\ registered' = registered \cup {node.name}
            /\ firstAddr' = [firstAddr EXCEPT ![node.name] = node.ip_address]
            /\ peerConflict' = peerConflict
  /\ UNCHANGED <<ownVars, storeUp, storeVars, peerConfig, peerPending,
                 peerFailed, peerResult>>

\* -------------------------------------------------------- specifications
\* The steps of one daemon's startup task.
Startup ==
  \/ InitStart
  \/ Resolve
  \/ Connect
  \/ RetrySleep
  \/ SettleSleep
  \/ CreatePool
  \/ GetConn
  \/ PendingMigrations
  \/ MigrateOne
  \/ MigrationsApplied

Next ==
  \/ Startup
  \/ Register
  \/ TaskGetConn
  \/ TaskRelease
  \/ Restart
  \/ StoreComesUp
  \/ StoreGoesDown

Spec == Init /\ [][Next]_vars

\* The startup task is scheduled fairly and the store, after finitely many
\* changes, is reachable and stays reachable.
LiveSpec == Init /\ [][Next]_vars /\ WF_vars(Startup) /\ <>[]storeUp

\* The startup task is scheduled fairly; the store may stay unreachable.
FairSpec == Init /\ [][Next]_vars /\ WF_vars(Startup)

\* One run of a daemon with a second daemon bootstrapping and registering
\* against the same store at the same time.
RaceNext ==
  \/ Startup
  \/ Register
  \/ StoreComesUp
  \/ StoreGoesDown
  \/ PeerPending
  \/ PeerMigrateOne
  \/ PeerApplied
  \/ PeerLookup
  \/ PeerInsert

RaceSpec == Init /\ [][RaceNext]_vars

\* ------------------------------------------------------------------ claims

\* C1: once wait_store is probing and the store, after finitely many failed
\* probes, becomes and stays reachable, wait_store eventually returns Ok; and
\* it has returned Ok only when a connect of this run has succeeded.
C1_WaitStoreEventuallyOk ==
  /\ (pc = "connect") ~> (waitResult = OkUnit)
  /\ [](waitResult = OkUnit => connected /\ probes >= 1)

\* C1 witness: wait_store returned Ok after at least two failed probes.
C1_Witness ==
  /\ waitResult = OkUnit
  /\ connected
  /\ probes >= 3
  /\ sleeps >= 3

\* init returned the migration error of line 131.
MigrationFailed ==
  /\ result.tag = "Err"
  /\ result.context = "CockroachDB migration"

StrictlyAscending(q) == \A i, j \in 1..Len(q) : i < j => q[i] < q[j]

\* C2: once the endpoint has resolved and while no connect has succeeded,
\* wait_store stays in its probe loop whatever the number of failed
\* connects: neither wait_store nor init has returned anything.
C2_FailedConnectNeverReturns ==
  (addr # <<>> /\ ~connected) =>
     /\ pc \in {"connect", "retry_sleep"}
     /\ waitResult = NoResult
     /\ result = NoResult
     /\ began = <<"waiter">>

\* C2 witness: still probing after as many failed connects (each followed by
\* its sleep) as the counters hold.
C2_Witness ==
  /\ addr # <<>>
  /\ ~connected
  /\ probes = MaxProbes
  /\ sleeps = MaxProbes
  /\ pc = "connect"

\* C3: wait_store has returned Ok, or any later step of init has begun, only
\* when a full settle interval was slept after the first successful connect.
C3_SettleBeforeReturn ==
  /\ (waitResult = OkUnit => connected /\ sinceConnect >= SETTLE_SECS)
  /\ (connected /\ sinceConnect < SETTLE_SECS =>
        /\ pc = "settle_sleep"
        /\ began = <<"waiter">>
        /\ ~pool /\ ~conn /\ attempted = <<>>)
  /\ (pc \in {"create_pool", "get_conn", "pending", "migrate"} =>
        sinceConnect >= SETTLE_SECS)

\* C3 witness: a migration is being run, 2 s after the first successful
\* connect.
C3_Witness ==
  /\ pc = "migrate"
  /\ attempted # <<>>
  /\ connected
  /\ sinceConnect = SETTLE_SECS

C5_StrictSequence ==
  /\ IsPrefix(began, StepOrder)
  /\ IsPrefix(completed, began)
  /\ Len(began) <= Len(completed) + 1
  /\ (pool => connected /\ waitResult = OkUnit)
  /\ (pc \in {"pending", "migrate"} => conn /\ pool)
  /\ (conn => pool)
  /\ (attempted # <<>> => Len(completed) >= 3)
  /\ (result.tag = "Err" => pc = "returned" /\ Len(began) = Len(completed) + 1)

\* C5 witness: a run that went through every step and attempted every
\* migration.
C5_Witness ==
  /\ result = OkPool
  /\ began = StepOrder
  /\ Len(attempted) = NumMigrations

\* C6: init has returned a pool only when the waiter succeeded, the pool was
\* built, a connection was acquired and the ledger and schema hold the whole
\* MigrationSet; once a step has failed, init has returned an error and no
\* pool.
C6_NoPartialSuccess ==
  /\ (result = OkPool =>
        /\ waitResult = OkUnit
        /\ pool
        /\ completed = SubSeq(StepOrder, 1, 4)
        /\ failed = 0
        /\ Range(ledger) = MIGRATIONS
        /\ schema = MIGRATIONS)
  /\ (pc = "returned" => result = OkPool \/ (result.tag = "Err" /\ ~pool))
  /\ (failed # 0 => result.tag = "Err" /\ ~pool)
  /\ (pc = "returned" /\ Len(completed) < 4 => result.tag = "Err")

\* C6 witness: a pool returned by a run that finished what a failed run had
\* left pending.
C6_Witness ==
  /\ result = OkPool
  /\ ledgerBefore # <<>>
  /\ attempted # <<>>

\* C7: over all bootstraps every migration mutates the schema at most once
\* and in ascending order; a run never attempts a recorded migration; a run
\* from an empty ledger that returns the pool applied all migrations, and a
\* run that found all of them recorded applied none and changed nothing.
C7_MigrationsOnceAscending ==
  /\ StrictlyAscending(applyLog)
  /\ StrictlyAscending(ledger)
  /\ StrictlyAscending(attempted)
  /\ Range(attempted) \cap Range(ledgerBefore) = {}
  /\ (result = OkPool /\ ledgerBefore = <<>> =>
        /\ attempted = SortAsc(MIGRATIONS)
        /\ Range(ledger) = MIGRATIONS)
  /\ (result = OkPool /\ Range(ledgerBefore) = MIGRATIONS =>
        /\ attempted = <<>>
        /\ ledger = ledgerBefore
        /\ schema = schemaBefore)

\* C7 witness: a second successful bootstrap against a fully migrated store.
C7_Witness ==
  /\ result = OkPool
  /\ Range(ledgerBefore) = MIGRATIONS
  /\ Len(applyLog) = NumMigrations
  /\ attempted = <<>>

\* C8: when a migration has failed, init has returned the Interrupted error
\* of context "CockroachDB migration" carrying the underlying message and no
\* pool; the failed migration is the last one attempted, no higher one was
\* attempted or recorded, and nothing applied before it was undone.
C8_AbortOnMigrationFailure ==
  /\ (failed # 0 =>
        /\ pc = "returned"
        /\ MigrationFailed
        /\ result.kind = "Interrupted"
        /\ result.msg \in { <<"", e>> : e \in MigErrs }
        /\ ~pool
        /\ attempted # <<>>
        /\ attempted[Len(attempted)] = failed
        /\ \A m \in MIGRATIONS :
             m >= failed => m \notin Range(ledger) /\ m \notin schema
        /\ \A m \in MIGRATIONS :
             m > failed => m \notin Range(attempted)
        /\ \A i \in 1..(Len(attempted) - 1) :
             attempted[i] \in Range(ledger) /\ attempted[i] \in schema
        /\ Range(ledgerBefore) \subseteq Range(ledger)
        /\ schemaBefore \subseteq schema)
  /\ (MigrationFailed => pc = "returned" /\ ~pool)

\* C8 witness: the second of three pending migrations failed.
C8_Witness ==
  /\ failed = 2
  /\ attempted = <<1, 2>>
  /\ MigrationFailed
  /\ result.msg = <<"", "syntax error">>

\* C9 as claimed: when init returns the migration error, ledger and schema
\* are what they were before that run of the Migration Runner.
C9_NoPartialApplication ==
  MigrationFailed => ledger = ledgerBefore /\ schema = schemaBefore

\* C9 as amended: when init returns the migration error, the ledger and the
\* schema are those before the run plus exactly the migrations attempted
\* before the failing one; the failing one and the later ones left nothing.
C9_PrefixApplied ==
  MigrationFailed =>
    LET done == IF failed = 0 THEN attempted
                ELSE SubSeq(attempted, 1, Len(attempted) - 1)
    IN /\ ledger = ledgerBefore \o done
       /\ schema = schemaBefore \cup Range(done)
       /\ (failed # 0 => failed \notin Range(ledger) /\ failed \notin schema)

\* C9 witness: a run that applied a migration and then failed on the next.
C9_Witness ==
  /\ MigrationFailed
  /\ failed # 0
  /\ Len(attempted) >= 2
  /\ ledger # ledgerBefore

\* C10: the NodeRecord table holds at most one row per name, and exactly one
\* row for every name whose register call returned Ok.
C10_OneRecordPerName ==
  \A n \in Names :
    LET rows == { i \in 1..Len(nodes) : nodes[i].name = n }
    IN /\ Cardinality(rows) <= 1
       /\ (n \in registered => Cardinality(rows) = 1)

\* C10 witness: both names are registered, and the running daemon registered
\* again a name whose row holds another address.
C10_Witness ==
  /\ registered = Names
  /\ Len(nodes) = 2
  /\ regResult = OkUnit
  /\ \E i \in 1..Len(nodes) :
       /\ nodes[i].name = config.hostname
       /\ nodes[i].ip_address # config.gateway

\* C11: every stored row holds the address of the first register call of
\* its name that returned Ok; no step changes or removes a stored row; and a
\* register call for a name that has a row returns Ok (store reachable) and
\* leaves the table as it is.
C11_CreateIfNotExists ==
  /\ [](\A i \in 1..Len(nodes) : nodes[i].ip_address = firstAddr[nodes[i].name])
  /\ [][\A i \in 1..Len(nodes) : i <= Len(nodes') /\ nodes'[i] = nodes[i]]_vars
  /\ [][(Register /\ \E i \in 1..Len(nodes) : nodes[i].name = config.hostname) =>
          /\ nodes' = nodes
          /\ (storeUp => regResult' = OkUnit)]_vars

\* C11 witness: register returned Ok for a name whose row holds another
\* address than the caller's, beside a row of the other name.
C11_Witness ==
  /\ regResult = OkUnit
  /\ Len(nodes) = 2
  /\ firstAddr[config.hostname] # ""
  /\ firstAddr[config.hostname] # config.gateway
  /\ \E i \in 1..Len(nodes) :
       /\ nodes[i].name = config.hostname
       /\ nodes[i].ip_address = firstAddr[config.hostname]

\* C12: the pool is constructed at most once per run of init; a construction
\* that ends with the store unreachable makes init return the Interrupted
\* error of context "CockroachDB" and no pool; and init never stays in
\* create_pool, also when the store stays unreachable.
C12_CreatePoolOnce ==
  /\ [](poolBuilds <= 1)
  /\ [](pc = "create_pool" => poolBuilds = 0)
  /\ [][(pc = "create_pool" /\ pc' # "create_pool" /\ ~storeUp) =>
          /\ pc' = "returned"
          /\ result'.tag = "Err"
          /\ result'.kind = "Interrupted"
          /\ result'.context = "CockroachDB"
          /\ poolBuilds' = 1
          /\ ~pool']_vars
  /\ (pc = "create_pool") ~> (pc # "create_pool")

\* C12 witness: init returned the pool construction error with the store
\* unreachable after the waiter had succeeded.
C12_Witness ==
  /\ pc = "returned"
  /\ ~storeUp
  /\ waitResult = OkUnit
  /\ result.kind = "Interrupted"
  /\ result.context = "CockroachDB"
  /\ poolBuilds = 1

\* C13: the pool never hands out more than PoolSize connections; a
\* get_pool_conn on an exhausted pool, or with the store unreachable, returns
\* in one step the NotConnected error of context "CockroachDB connection"
\* wrapping the pool's error and leaves the checked-out connections as they
\* were; in init that error is returned at once, and init never stays in
\* get_pool_conn.
C13_GetConnFailsOnce ==
  /\ [](checkedOut <= PoolSize)
  /\ [](checkedOut = taskHeld + (IF conn THEN 1 ELSE 0))
  /\ [][(TaskGetConn /\ (checkedOut >= PoolSize \/ ~storeUp)) =>
          /\ acqResult' = [tag |-> "Err", kind |-> "NotConnected",
                           context |-> "CockroachDB connection",
                           msg |-> <<"", pool_get(storeUp, checkedOut).err>>]
          /\ checkedOut' = checkedOut
          /\ taskHeld' = taskHeld
          /\ pc' = pc]_vars
  /\ [][(pc = "get_conn" /\ pc' # "get_conn" /\ ~storeUp) =>
          /\ pc' = "returned"
          /\ result'.tag = "Err"
          /\ result'.kind = "NotConnected"
          /\ result'.context = "CockroachDB connection"
          /\ checkedOut' = checkedOut
          /\ ~conn']_vars
  /\ (pc = "get_conn") ~> (pc # "get_conn")

\* C13 witness: with the store reachable and every connection of the pool
\* checked out, the last get_pool_conn returned the error.
C13_Witness ==
  /\ storeUp
  /\ checkedOut = PoolSize
  /\ taskHeld = PoolSize
  /\ acqResult.tag = "Err"
  /\ acqResult.kind = "NotConnected"

\* C16: a probe is followed by the settle sleep when it succeeded and by one
\* retry sleep of RETRY_SECS and then another probe when it failed; once a
\* connect has succeeded this run makes no further probe and is never again
\* in the probe loop, whatever the store does and whatever step fails later.
C16_ProbingThenReachable ==
  /\ [](connected => pc \notin {"start", "resolve", "connect", "retry_sleep"})
  /\ [][(pc = "connect" /\ pc' # "connect") =>
          IF storeUp THEN pc' = "settle_sleep" /\ connected'
                     ELSE pc' = "retry_sleep" /\ ~connected']_vars
  /\ [][(pc = "retry_sleep" /\ pc' # "retry_sleep") =>
          /\ pc' = "connect"
          /\ lastSleep' = RETRY_SECS
          /\ probes' = probes]_vars
  /\ [][(connected /\ pc' # "start") => connected' /\ probes' = probes]_vars
  /\ [][(pc = "settle_sleep" /\ pc' # "settle_sleep") =>
          pc' = "create_pool" /\ lastSleep' = SETTLE_SECS]_vars

\* C16 witness: after failed probes and a successful one the store became
\* unreachable again and a later step failed: init returned the error.
C16_Witness ==
  /\ connected
  /\ probes >= 3
  /\ ~storeUp
  /\ pc = "returned"
  /\ result.tag = "Err"
  /\ lastSleep = SETTLE_SECS

\* C17: when init has returned, with the pool or with an error, the
\* connection it checked out for the migrations is checked out no more: the
\* pool's checked-out connections are those of the units of work alone.
\* While the migrations run it is the one connection checked out.
C17_ConnReleased ==
  /\ (pc = "returned" => ~conn /\ checkedOut = taskHeld)
  /\ (pc \in {"pending", "migrate"} => conn /\ checkedOut = 1)
  /\ (pc \notin {"pending", "migrate"} => ~conn)

\* C17 witness: init returned a migration error after a migration had been
\* attempted on the connection; nothing is checked out.
C17_Witness ==
  /\ pc = "returned"
  /\ MigrationFailed
  /\ attempted # <<>>
  /\ ~conn
  /\ checkedOut = 0

\* C19: whenever wait_store has stopped, it has returned Ok or an IoError to
\* init.
C19_WaitStoreAlwaysReturns ==
  pc \notin {"start", "resolve", "connect", "retry_sleep", "settle_sleep"} =>
    waitResult.tag \in {"Ok", "Err"}

\* The errors init has returned so far, this run's included.
AllErrs == errSeen \cup ReturnedErr

\* C15 as claimed: errors of different steps have different kinds.
C15_KindIdentifiesStep ==
  \A a, b \in AllErrs : a.step # b.step => a.kind # b.kind

\* C15 as amended: the kind and the context string of an error together
\* identify the step that failed; the kinds alone do not: pool construction
\* and migration both fail with kind Interrupted.
C15_KindAndContextIdentifyStep ==
  /\ \A a \in AllErrs :
       <<a.kind, a.context>> =
         CASE a.step = "waiter"  -> <<"InvalidData", "Wait store">>
           [] a.step = "pool"    -> <<"Interrupted", "CockroachDB">>
           [] a.step = "conn"    -> <<"NotConnected", "CockroachDB connection">>
           [] a.step = "migrate" -> <<"Interrupted", "CockroachDB migration">>
           [] OTHER              -> <<"", "">>
  /\ \A a, b \in AllErrs :
       a.step # b.step => <<a.kind, a.context>> # <<b.kind, b.context>>

\* C15 witness: init has returned an error of each of the four steps.
C15_Witness ==
  { a.step : a \in AllErrs } = {"waiter", "pool", "conn", "migrate"}

\* The error a daemon's init returns when the migration it runs was recorded
\* by another daemon after it listed its pending migrations.
LostRace == interupted("CockroachDB migration", <<"", "duplicate key value">>)

C18_ConcurrentRegister ==
  /\ \A i, j \in 1..Len(nodes) : nodes[i].name = nodes[j].name => i = j
  /\ \A n \in registered : \E i \in 1..Len(nodes) : nodes[i].name = n
  /\ peerConflict => peerRegResult = OkUnit
  /\ \A r \in {regResult, peerRegResult} :
       r.tag = "Err" => r.kind = "NotConnected"
  /\ (regResult = OkUnit /\ peerRegResult = OkUnit
        /\ peerConfig.hostname = config.hostname) =>
       Cardinality({ i \in 1..Len(nodes) : nodes[i].name = config.hostname }) = 1

\* C18 witness: the two daemons share a hostname and differ in address, the
\* second one's insert met the first one's row, both calls returned Ok and the
\* table holds the one row of the first.
C18_Witness ==
  /\ peerConflict
  /\ peerConfig.hostname = config.hostname
  /\ peerConfig.gateway # config.gateway
  /\ regResult = OkUnit
  /\ peerRegResult = OkUnit
  /\ nodes = <<[name |-> config.hostname, ip_address |-> config.gateway]>>

============================================================================
